---- MODULE Spec2Model ----
(***************************************************************************)
(* A state-machine model of the R*-tree insertion strategy (src/rstar.rs)  *)
(* and of the best-first nearest-neighbour search                          *)
(* (rstar/src/nearest_neighbor.rs).                                        *)
(*                                                                         *)
(* Scalars are integers, points are pairs <<x, y>> (two dimensions), an    *)
(* envelope is a record [lower, upper] of two points.  A tree node is a    *)
(* record [leaf, mbr, children]: a Leaf(t) has leaf = TRUE, mbr the        *)
(* degenerate envelope of its payload point t and no children; a Parent    *)
(* has leaf = FALSE.  Rust's 0-based child indices are 1-based here.       *)
(***************************************************************************)
EXTENDS Integers, Sequences, FiniteSets, Bags, TLC

\* ------------------------------------------------------------------ bounds

\* Largest MAX_SIZE among the parameter sets explored.
MaxMaxSize == 3

\* Largest number of insert calls made on one tree.
MaxInserts == 5

\* Largest number of insert calls made on one tree of the long runs, which
\* draw their payloads from DeepPoints.
MaxDeepInserts == 8

\* Largest number of insert calls made on a tree that is searched.
MaxQueryInserts == 4

\* Payloads that may be inserted (scenario D of the specification, scaled
\* by two so that the centre of every envelope has integer doubled
\* coordinates).
Points == {<<0, 0>>, <<2, 0>>, <<0, 2>>, <<2, 2>>, <<1, 1>>}

\* Payloads of the long runs.
DeepPoints == {<<0, 0>>, <<0, 2>>, <<1, 1>>}

\* Query points of the searches.
QueryPoints == {<<0, 0>>, <<1, 0>>, <<2, 1>>, <<3, 3>>}

\* The parameter sets the specification allows, up to MaxMaxSize.
ValidParams ==
    {p \in [MinSize : 1..MaxMaxSize, MaxSize : 1..MaxMaxSize,
            ReinsertionCount : 0..MaxMaxSize] :
        /\ p.MaxSize >= 2 * p.MinSize - 1
        /\ p.ReinsertionCount < p.MaxSize - p.MinSize + 1}

\* Cap of the history variable that logs the forced reinsertions of a call.
LogCap == MaxMaxSize + 3

VARIABLES
    params,           \* [MinSize, MaxSize, ReinsertionCount]: RTreeParams
    root,             \* tree.root: ParentNodeData
    height,           \* tree.height
    size,             \* tree.size
    pc,               \* "idle" | "loop" (inside insert's while loop) | "aborted"
    tree_height,      \* insert's local tree_height
    insertion_stack,  \* insert's local insertion_stack
    reinsertions,     \* insert's local reinsertions
    inserted,         \* history: how often each payload was passed to insert
    reinsert_log,     \* history: node_height of every Reinsert of this call
    origin,           \* history: for each stack entry, the Reinsert that pushed it
    popped,           \* history: origin of the entry popped last, and what stayed
    late_insert,      \* history: this call popped an entry after its root split
    search,           \* the nearest-neighbour search under way or finished
    call              \* the last direct call of reinsert, split or choose_subtree

vars == <<params, root, height, size, pc, tree_height, insertion_stack,
          reinsertions, inserted, reinsert_log, origin, popped, late_insert,
          search, call>>

\* ---------------------------------------------------------------- scalars

\* <T::Point as Point>::Scalar::max_value()
ScalarMax == 1000

Min(a, b) == IF a < b THEN a ELSE b
Max(a, b) == IF a > b THEN a ELSE b
Sq(a) == a * a

\* Rust's `<` on tuples: lexicographic.
TupleLess(a, b) ==
    \E i \in 1..Len(a) : a[i] < b[i] /\ \A j \in 1..(i - 1) : a[j] = b[j]

\* The one element of a singleton set.  Only({F(x) : x \in {e}}) is
\* LET x == e IN F(x) with e evaluated once, whatever F does with x.
Only(S) == CHOOSE x \in S : TRUE

\* s[i] comes before s[j] in a stable sort by the keys.
SortsBefore(key, i, j) ==
    TupleLess(key[i], key[j]) \/ (~TupleLess(key[j], key[i]) /\ i < j)

\* A stable sort of s by ascending key[i], the key of s[i] (slice::sort_by
\* with a comparison of keys; a key is a tuple, compared lexicographically).
SortBy(s, key) ==
    Only({[r \in 1..Len(s) |->
              s[CHOOSE i \in 1..Len(s) :
                  Cardinality({j \in 1..Len(s) : SortsBefore(k, j, i)}) = r - 1]] :
        k \in {key}})

\* -------------------------------------------------------------- envelopes

\* Envelope::new_empty: the neutral element of merge.
new_empty == [lower |-> <<ScalarMax, ScalarMax>>,
              upper |-> <<-ScalarMax, -ScalarMax>>]

from_point(p) == [lower |-> p, upper |-> p]

merge(a, b) ==
    [lower |-> <<Min(a.lower[1], b.lower[1]), Min(a.lower[2], b.lower[2])>>,
     upper |-> <<Max(a.upper[1], b.upper[1]), Max(a.upper[2], b.upper[2])>>]

area(e) == (e.upper[1] - e.lower[1]) * (e.upper[2] - e.lower[2])

margin_value(e) == (e.upper[1] - e.lower[1]) + (e.upper[2] - e.lower[2])

intersection_area(a, b) ==
    LET w == Min(a.upper[1], b.upper[1]) - Max(a.lower[1], b.lower[1])
        h == Min(a.upper[2], b.upper[2]) - Max(a.lower[2], b.lower[2])
    IN  IF w > 0 /\ h > 0 THEN w * h ELSE 0

contains_envelope(a, b) ==
    \A k \in 1..2 : a.lower[k] <= b.lower[k] /\ b.upper[k] <= a.upper[k]

\* Twice the centre (the centre itself may have half-integer coordinates).
center2(e) == <<e.lower[1] + e.upper[1], e.lower[2] + e.upper[2]>>

\* Squared distance of two doubled points: four times the squared distance.
length2_of_diff(c, d) == Sq(c[1] - d[1]) + Sq(c[2] - d[2])

\* Squared distance from point p to the closest point of e.
distance_2(e, p) ==
    LET d(k) == Max(Max(e.lower[k] - p[k], p[k] - e.upper[k]), 0)
    IN  Sq(d(1)) + Sq(d(2))

\* MINMAXDIST of Roussopoulos, Kelley and Vincent.
min_max_dist_2(e, p) ==
    LET near(k) == IF 2 * p[k] <= e.lower[k] + e.upper[k]
                   THEN e.lower[k] ELSE e.upper[k]
        far(k)  == IF 2 * p[k] >= e.lower[k] + e.upper[k]
                   THEN e.lower[k] ELSE e.upper[k]
    IN  Min(Sq(p[1] - near(1)) + Sq(p[2] - far(2)),
            Sq(p[1] - far(1)) + Sq(p[2] - near(2)))

\* align_envelopes on `axis`: by lower bound, then by upper bound.
align_envelopes(axis, children) ==
    SortBy(children, [i \in 1..Len(children) |->
                         <<children[i].mbr.lower[axis],
                           children[i].mbr.upper[axis]>>])

\* ------------------------------------------------------------------ nodes

Leaf(t) == [leaf |-> TRUE, mbr |-> from_point(t), children |-> <<>>]

\* The merge of `start` and of the envelopes of `children`, in their order.
RECURSIVE merge_all(_, _)
merge_all(start, children) ==
    IF children = <<>> THEN start
    ELSE Only({merge_all(next, Tail(children)) :
             next \in {merge(start, children[1].mbr)}})

mbr_for_children(children) == merge_all(new_empty, children)

new_root == [leaf |-> FALSE, mbr |-> new_empty, children |-> <<>>]

new_parent(children) ==
    [leaf |-> FALSE, mbr |-> mbr_for_children(children), children |-> children]

\* Vec::split_off(at): the pair (what stays, what is returned).
split_off(v, at) ==
    [keep |-> SubSeq(v, 1, at), off |-> SubSeq(v, at + 1, Len(v))]

\* InsertionResult, and the panic of a fatal abort.
Complete == [tag |-> "Complete", nodes |-> <<>>, height |-> 0]
Split(node) == [tag |-> "Split", nodes |-> <<node>>, height |-> 0]
Reinsert(nodes, h) == [tag |-> "Reinsert", nodes |-> nodes, height |-> h]
Panic == [tag |-> "Panic", nodes |-> <<>>, height |-> 0]

\* --------------------------------------------------------- choose_subtree

\* The first loop with `<=` for `<`: of several smallest areas the last wins.
RECURSIVE inclusion_scan_last(_, _, _, _)
inclusion_scan_last(children, insertion_mbr, index, acc) ==
    IF index > Len(children) THEN acc
    ELSE LET mbr == children[index].mbr
             hit == contains_envelope(mbr, insertion_mbr)
             better == hit /\ area(mbr) <= acc.min_area
         IN  Only({inclusion_scan_last(children, insertion_mbr, index + 1,
                                       next) :
                 next \in {[inclusion_count |->
                               acc.inclusion_count + (IF hit THEN 1 ELSE 0),
                            min_area  |->
                               IF better THEN area(mbr) ELSE acc.min_area,
                            min_index |->
                               IF better THEN index ELSE acc.min_index]}})

\* The first loop: the children whose mbr contains the incoming envelope.
RECURSIVE inclusion_scan(_, _, _, _)
inclusion_scan(children, insertion_mbr, index, acc) ==
    IF index > Len(children) THEN acc
    ELSE LET mbr == children[index].mbr
             hit == contains_envelope(mbr, insertion_mbr)
             better == hit /\ area(mbr) < acc.min_area
         IN  Only({inclusion_scan(children, insertion_mbr, index + 1, next) :
                 next \in {[inclusion_count |->
                               acc.inclusion_count + (IF hit THEN 1 ELSE 0),
                            min_area  |->
                               IF better THEN area(mbr) ELSE acc.min_area,
                            min_index |->
                               IF better THEN index ELSE acc.min_index]}})

\* The inner loop over child2: (overlap, new_overlap) summed over the others.
RECURSIVE overlap_scan(_, _, _, _, _)
overlap_scan(children, index1, new_mbr, index2, acc) ==
    IF index2 > Len(children) THEN acc
    ELSE Only({overlap_scan(children, index1, new_mbr, index2 + 1, next) :
             next \in {IF index2 # index1
                       THEN <<acc[1] + intersection_area(children[index1].mbr,
                                                         children[index2].mbr),
                              acc[2] + intersection_area(new_mbr,
                                                         children[index2].mbr)>>
                       ELSE acc}})

\* One candidate of the second loop: (overlap_increase, area_increase, area).
outsider_cost(children, insertion_mbr, all_leaves, index) ==
    Only({<<IF all_leaves
            THEN Only({sums[2] - sums[1] :
                     sums \in {overlap_scan(children, index, new_mbr, 1,
                                            <<0, 0>>)}})
            ELSE 0,
            area(new_mbr) - area(children[index].mbr),
            area(new_mbr)>> :
        new_mbr \in {merge(children[index].mbr, insertion_mbr)}})

\* The second loop: the least (overlap_increase, area_increase, area).
RECURSIVE outsider_scan(_, _, _, _, _)
outsider_scan(children, insertion_mbr, all_leaves, index, acc) ==
    IF index > Len(children) THEN acc
    ELSE Only({outsider_scan(children, insertion_mbr, all_leaves, index + 1,
                   IF TupleLess(new_min, acc.min) \/ index = 1
                   THEN [min |-> new_min, min_index |-> index]
                   ELSE acc) :
             new_min \in {outsider_cost(children, insertion_mbr, all_leaves,
                                        index)}})

\* The index of the child choose_subtree follows (min_index).
choose_subtree(node, to_insert, all_leaves) ==
    Only({IF incl.inclusion_count = 0
          THEN outsider_scan(node.children, to_insert.mbr, all_leaves, 1,
                   [min |-> <<0, 0, 0>>, min_index |-> incl.min_index]).min_index
          ELSE incl.min_index :
        incl \in {inclusion_scan(node.children, to_insert.mbr, 1,
                      [inclusion_count |-> 0, min_area |-> ScalarMax,
                       min_index |-> 1])}})

\* ------------------------------------------------------------------ split

\* first_mbr and second_mbr of a split of `children` after its k-th child.
first_mbr(children, k) == merge_all(children[k].mbr, SubSeq(children, 1, k))
second_mbr(children, k) ==
    merge_all(children[k + 1].mbr, SubSeq(children, k + 1, Len(children)))

RECURSIVE axis_scan(_, _, _, _)
axis_scan(children, axis, k, acc) ==
    IF k > Len(children) - params.MinSize THEN acc
    ELSE Only({axis_scan(children, axis, k + 1,
                   IF acc.best_goodness > margin \/ axis = 1
                   THEN [best_goodness |-> margin, best_axis |-> axis]
                   ELSE acc) :
             margin \in {margin_value(first_mbr(children, k))
                         + margin_value(second_mbr(children, k))}})

\* The second axis of get_split_axis, after the first left `acc`.
second_axis(sorted1, acc1) ==
    Only({[axis |-> axis_scan(sorted2, 2, params.MinSize, acc1).best_axis,
           children |-> sorted2] :
        sorted2 \in {align_envelopes(2, sorted1)}})

\* get_split_axis: the axis chosen, and the children as it leaves them
\* (sorted along the last axis it tried).
get_split_axis(node) ==
    Only({Only({second_axis(sorted1, acc1) :
              acc1 \in {axis_scan(sorted1, 1, params.MinSize,
                                  [best_goodness |-> 0, best_axis |-> 1])}}) :
        sorted1 \in {align_envelopes(1, node.children)}})

\* The loop of split with `<=` for `<`: of several least pairs the last wins.
RECURSIVE split_scan_last(_, _, _)
split_scan_last(children, k, acc) ==
    IF k > Len(children) - params.MinSize THEN acc
    ELSE Only({split_scan_last(children, k + 1,
                   IF ~TupleLess(acc.best, new_best) \/ k = params.MinSize
                   THEN [best |-> new_best, best_index |-> k]
                   ELSE acc) :
             new_best \in {Only({<<intersection_area(first, second),
                                   area(first) + area(second)>> :
                               first \in {first_mbr(children, k)},
                               second \in {second_mbr(children, k)}})}})

RECURSIVE split_scan(_, _, _)
split_scan(children, k, acc) ==
    IF k > Len(children) - params.MinSize THEN acc
    ELSE Only({split_scan(children, k + 1,
                   IF TupleLess(new_best, acc.best) \/ k = params.MinSize
                   THEN [best |-> new_best, best_index |-> k]
                   ELSE acc) :
             new_best \in {Only({<<intersection_area(first, second),
                                   area(first) + area(second)>> :
                               first \in {first_mbr(children, k)},
                               second \in {second_mbr(children, k)}})}})

\* The index at which split cuts the aligned children.
split_index(children) ==
    split_scan(children, params.MinSize,
               [best |-> <<0, 0>>, best_index |-> params.MinSize]).best_index

\* The children aligned on the axis get_split_axis chose.
split_aligned(node) ==
    Only({align_envelopes(chosen.axis, chosen.children) :
        chosen \in {get_split_axis(node)}})

\* split that cuts one child too late and truncates the node at the index:
\* the child at the cut is in neither half.
split_lossy(node) ==
    Only({Only({[node |-> [node EXCEPT !.children = parts.keep,
                                       !.mbr = mbr_for_children(parts.keep)],
                 result |-> new_parent(Tail(parts.off))] :
              parts \in {split_off(aligned, split_index(aligned))}}) :
        aligned \in {split_aligned(node)}})

\* split that leaves the node's mbr as it was before the children left.
split_stale_mbr(node) ==
    Only({Only({[node |-> [node EXCEPT !.children = parts.keep],
                 result |-> new_parent(parts.off)] :
              parts \in {split_off(aligned, split_index(aligned))}}) :
        aligned \in {split_aligned(node)}})

\* split: the node as it is left, and the Parent split off it.
split(node) ==
    Only({Only({[node |-> [node EXCEPT !.children = parts.keep,
                                       !.mbr = mbr_for_children(parts.keep)],
                 result |-> new_parent(parts.off)] :
              parts \in {split_off(aligned, split_index(aligned))}}) :
        aligned \in {split_aligned(node)}})

\* --------------------------------------------------------------- reinsert

\* The children in ascending order of the distance of their centre from the
\* centre of the node's mbr (lines 282-289).
sort_by_center_distance(node) ==
    Only({SortBy(node.children, [i \in 1..Len(node.children) |->
              <<length2_of_diff(center2(node.children[i].mbr), center)>>]) :
        center \in {center2(node.mbr)}})

\* reinsert that detaches the children nearest to the centre.
reinsert_nearest(node) ==
    Only({Only({[node |-> [node EXCEPT !.children = parts.off,
                                       !.mbr = mbr_for_children(parts.off)],
                 result |-> parts.keep] :
              parts \in {split_off(sorted, params.ReinsertionCount)}}) :
        sorted \in {sort_by_center_distance(node)}})

\* reinsert: the node as it is left, and the children detached from it.
reinsert(node) ==
    Only({Only({[node |-> [node EXCEPT !.children = parts.keep,
                                       !.mbr = mbr_for_children(parts.keep)],
                 result |-> parts.off] :
              parts \in {split_off(sorted, Len(sorted)
                                           - params.ReinsertionCount)}}) :
        sorted \in {sort_by_center_distance(node)}})

\* ------------------------------------------------------- resolve_overflow

resolve_overflow(node, allow_reinsert) ==
    IF Len(node.children) > params.MaxSize
    THEN IF params.ReinsertionCount = 0 \/ ~allow_reinsert
         THEN Only({[node |-> s.node, res |-> Split(s.result)] :
                  s \in {split(node)}})
         ELSE Only({[node |-> r.node, res |-> Reinsert(r.result, 0)] :
                  r \in {reinsert(node)}})
    ELSE [node |-> node, res |-> Complete]

\* ------------------------------------------------------- recursive_insert

\* The Split arm resolving its overflow with reinsertion allowed, whatever
\* allow_reinsert says.
propagate_allow_reinsert(merged, follow, expand, allow_reinsert) ==
    Only({CASE expand.res.tag = "Split" ->
               Only({resolve_overflow(grown, TRUE) :
                   grown \in {[after EXCEPT
                                 !.mbr = merge(@, expand.res.nodes[1].mbr),
                                 !.children = Append(@, expand.res.nodes[1])]}})
            [] expand.res.tag = "Reinsert" ->
               [node |-> [after EXCEPT
                             !.mbr = mbr_for_children(after.children)],
                res |-> Reinsert(expand.res.nodes, expand.res.height + 1)]
            [] OTHER -> [node |-> after, res |-> expand.res] :
        after \in {[merged EXCEPT !.children[follow] = expand.node]}})

\* What recursive_insert makes of the result `expand` of the recursion into
\* the child `follow` of `merged` (lines 91-102).
propagate(merged, follow, expand, allow_reinsert) ==
    Only({CASE expand.res.tag = "Split" ->
               Only({resolve_overflow(grown, allow_reinsert) :
                   grown \in {[after EXCEPT
                                 !.mbr = merge(@, expand.res.nodes[1].mbr),
                                 !.children = Append(@, expand.res.nodes[1])]}})
            [] expand.res.tag = "Reinsert" ->
               [node |-> [after EXCEPT
                             !.mbr = mbr_for_children(after.children)],
                res |-> Reinsert(expand.res.nodes, expand.res.height + 1)]
            [] OTHER -> [node |-> after, res |-> expand.res] :
        after \in {[merged EXCEPT !.children[follow] = expand.node]}})

\* recursive_insert: the node as it is left, and the InsertionResult.
\* choose_subtree panics when the child it picks is a Leaf, and its
\* indexing of node.children panics when the node has no child.
RECURSIVE recursive_insert(_, _, _, _)
recursive_insert(node, t, target_height, allow_reinsert) ==
    Only({IF target_height = 0
          THEN Only({resolve_overflow(pushed, allow_reinsert) :
                   pushed \in {[merged EXCEPT !.children = Append(@, t)]}})
          ELSE IF merged.children = <<>>
          THEN [node |-> merged, res |-> Panic]
          ELSE
          Only({IF merged.children[follow].leaf
                THEN [node |-> merged, res |-> Panic]
                ELSE Only({propagate(merged, follow, expand, allow_reinsert) :
                         expand \in {recursive_insert(merged.children[follow],
                                         t, target_height - 1,
                                         allow_reinsert)}}) :
              follow \in {choose_subtree(merged, t, target_height = 1)}}) :
        merged \in {[node EXCEPT !.mbr = merge(node.mbr, t.mbr)]}})

\* ----------------------------------------------------------------- insert

NoOrigin == [batch |-> 0, rank |-> 0]

\* Option<&T>: None, or Some(t).
None == <<>>
Some(t) == <<t>>

\* No search: the tree is not borrowed.
NoSearch ==
    [kind |-> "none", query |-> <<0, 0>>, nodes |-> EmptyBag,
     smallest_min_max |-> ScalarMax, emitted |-> <<>>, result |-> None,
     done |-> FALSE, pruned |-> FALSE, aborted |-> FALSE]

\* No direct call yet.
NoCall == [op |-> "none"]

\* A queue in place of the stack: the first element is taken.
pop_front(stack) == [top |-> stack[1], rest |-> Tail(stack)]

\* Vec::pop on a non-empty stack: the last element, and what stays.
pop(stack) ==
    [top |-> stack[Len(stack)], rest |-> SubSeq(stack, 1, Len(stack) - 1)]

Init ==
    /\ params \in ValidParams
    /\ root = new_root
    /\ height = 0
    /\ size = 0
    /\ pc = "idle"
    /\ tree_height = 0
    /\ insertion_stack = <<>>
    /\ reinsertions = <<>>
    /\ inserted = [p \in Points |-> 0]
    /\ reinsert_log = <<>>
    /\ origin = <<>>
    /\ popped = [origin |-> NoOrigin, remaining |-> <<>>]
    /\ late_insert = FALSE
    /\ search = NoSearch
    /\ call = NoCall

\* insert without the adjustment of the height of an empty tree.
InsertBegin_no_height(t) ==
    /\ pc = "idle"
    /\ height' = height
    /\ tree_height' = height'
    /\ insertion_stack' = <<[node |-> Leaf(t), node_height |-> 0,
                             can_reinsert |-> TRUE]>>
    /\ reinsertions' = [i \in 1..tree_height' |-> TRUE]
    /\ pc' = "loop"
    /\ inserted' = [inserted EXCEPT ![t] = @ + 1]
    /\ reinsert_log' = <<>>
    /\ origin' = <<NoOrigin>>
    /\ popped' = [origin |-> NoOrigin, remaining |-> <<>>]
    /\ late_insert' = FALSE
    /\ search' = NoSearch
    /\ UNCHANGED <<params, root, size, call>>

\* insert, up to the while loop (lines 29-39).
InsertBegin(t) ==
    /\ pc = "idle"
    /\ height' = IF size = 0 THEN 1 ELSE height
    /\ tree_height' = height'
    /\ insertion_stack' = <<[node |-> Leaf(t), node_height |-> 0,
                             can_reinsert |-> TRUE]>>
    /\ reinsertions' = [i \in 1..tree_height' |-> TRUE]
    /\ pc' = "loop"
    /\ inserted' = [inserted EXCEPT ![t] = @ + 1]
    /\ reinsert_log' = <<>>
    /\ origin' = <<NoOrigin>>
    /\ popped' = [origin |-> NoOrigin, remaining |-> <<>>]
    /\ late_insert' = FALSE
    /\ search' = NoSearch
    /\ UNCHANGED <<params, root, size, call>>

\* What insert's locals and the history become when the call ends: with the
\* stack empty the loop ends and insert returns to RTree::insert, which
\* counts the element.
Continue(stack) ==
    /\ pc' = IF stack = <<>> THEN "idle" ELSE "loop"
    /\ size' = IF stack = <<>> THEN size + 1 ELSE size
    /\ insertion_stack' = stack

Abort ==
    /\ pc' = "aborted"
    /\ UNCHANGED <<root, height, size, tree_height, insertion_stack,
                   reinsertions, reinsert_log, origin>>

\* The Split arm without `tree_height += 1`: the tree's height is set, the
\* local is stale.
RootSplit_stale_height(old_root, node, stack) ==
    /\ tree_height' = tree_height
    /\ height' = tree_height + 1
    /\ root' = [leaf |-> FALSE,
                mbr |-> merge(old_root.mbr, node.mbr),
                children |-> <<old_root, node>>]
    /\ Continue(stack)
    /\ UNCHANGED <<reinsertions, reinsert_log>>

\* The Split arm (lines 47-57): the root was split.
RootSplit(old_root, node, stack) ==
    /\ tree_height' = tree_height + 1
    /\ height' = tree_height + 1
    /\ root' = [leaf |-> FALSE,
                mbr |-> merge(old_root.mbr, node.mbr),
                children |-> <<old_root, node>>]
    /\ Continue(stack)
    /\ UNCHANGED <<reinsertions, reinsert_log>>

\* The Reinsert arm that never clears the level's flag.
ScheduleReinsert_keep_flag(new_root_node, nodes, h, stack, rest_origin) ==
    LET node_height == tree_height - h - 1
    IN  /\ root' = new_root_node
        /\ reinsertions' = reinsertions
        /\ Continue(stack \o [i \in 1..Len(nodes) |->
                        [node |-> nodes[i], node_height |-> node_height,
                         can_reinsert |-> TRUE]])
        /\ reinsert_log' = IF Len(reinsert_log) < LogCap
                           THEN Append(reinsert_log, node_height)
                           ELSE reinsert_log
        /\ origin' = rest_origin \o [i \in 1..Len(nodes) |->
                        [batch |-> Len(reinsert_log) + 1, rank |-> i]]
        /\ UNCHANGED <<height, tree_height>>

\* The Reinsert arm (lines 58-64).  An index outside `reinsertions` and a
\* usize subtraction below zero panic.
ScheduleReinsert(new_root_node, nodes, h, stack, rest_origin) ==
    LET node_height == tree_height - h - 1
    IN  IF node_height < 0 \/ node_height + 1 > Len(reinsertions)
        THEN Abort
        ELSE
        LET can_reinsert == reinsertions[node_height + 1]
            batch == Len(reinsert_log) + 1
        IN  /\ root' = new_root_node
            /\ reinsertions' = [reinsertions EXCEPT ![node_height + 1] = FALSE]
            /\ Continue(stack \o [i \in 1..Len(nodes) |->
                            [node |-> nodes[i], node_height |-> node_height,
                             can_reinsert |-> can_reinsert]])
            /\ reinsert_log' = IF Len(reinsert_log) < LogCap
                               THEN Append(reinsert_log, node_height)
                               ELSE reinsert_log
            /\ origin' = rest_origin \o [i \in 1..Len(nodes) |->
                            [batch |-> batch, rank |-> i]]
            /\ UNCHANGED <<height, tree_height>>

\* One turn of insert's while loop (lines 41-67): pop, recursive_insert from
\* the root, and the arm of the result.
InsertStep ==
    /\ pc = "loop"
    /\ LET top == pop(insertion_stack).top
           stack == pop(insertion_stack).rest
           rest_origin == pop(origin).rest
           target_height == tree_height - top.node_height - 1
       IN  /\ popped' = [origin |-> pop(origin).top, remaining |-> rest_origin]
           /\ late_insert' = (late_insert \/ tree_height > Len(reinsertions))
           /\ IF target_height < 0
              THEN Abort
              ELSE
              \E r \in {recursive_insert(root, top.node, target_height,
                                         top.can_reinsert)} :
                  CASE r.res.tag = "Split" ->
                       /\ RootSplit(r.node, r.res.nodes[1], stack)
                       /\ origin' = rest_origin
                    [] r.res.tag = "Reinsert" ->
                       ScheduleReinsert(r.node, r.res.nodes, r.res.height,
                                        stack, rest_origin)
                    [] r.res.tag = "Complete" ->
                       /\ root' = r.node
                       /\ Continue(stack)
                       /\ origin' = rest_origin
                       /\ UNCHANGED <<height, tree_height, reinsertions,
                                      reinsert_log>>
                    [] OTHER -> Abort
    /\ UNCHANGED <<params, inserted, search, call>>

\* Up to MaxInserts inserts of payloads of Points, for every parameter set.
Next ==
    \/ \E t \in Points : size < MaxInserts /\ InsertBegin(t)
    \/ InsertStep

Spec == Init /\ [][Next]_vars

\* insert runs to completion: its loop takes its next turn whenever it has one.
SpecFair == Init /\ [][Next]_vars /\ WF_vars(InsertStep)

\* Up to MaxDeepInserts inserts of payloads of DeepPoints, for every
\* parameter set: trees of three levels whose root splits while entries wait
\* on the work stack.
NextDeep ==
    \/ \E t \in DeepPoints : size < MaxDeepInserts /\ InsertBegin(t)
    \/ InsertStep

SpecDeep == Init /\ [][NextDeep]_vars

\* ------------------------------------------------------- nearest_neighbor

\* The BinaryHeap of RTreeNodeDistanceWrapper is a bag of records
\* [node, distance].  Its order inverts the comparison of distances, so pop
\* takes an entry of least distance; which one of several of equal distance
\* is left open.

\* The key of a Parent taken from the centre of its envelope.
wrapper_center(child, query_point) ==
    [node |-> child,
     distance |-> IF child.leaf
                  THEN Sq(child.mbr.lower[1] - query_point[1])
                       + Sq(child.mbr.lower[2] - query_point[2])
                  ELSE length2_of_diff(center2(child.mbr),
                                       <<2 * query_point[1],
                                         2 * query_point[2]>>)]

\* The key of a child: its envelope's distance for a Parent, the payload's
\* distance for a Leaf (a point's distance_2 is the squared distance).
wrapper(child, query_point) ==
    [node |-> child,
     distance |-> IF child.leaf
                  THEN Sq(child.mbr.lower[1] - query_point[1])
                       + Sq(child.mbr.lower[2] - query_point[2])
                  ELSE distance_2(child.mbr, query_point)]

\* pop().unwrap(): a panic on the empty heap.
heap_pop_unwrap(nodes) ==
    IF nodes = EmptyBag THEN {[kind |-> "Panic"]}
    ELSE {[kind |-> "Some", current |-> w, rest |-> nodes (-) SetToBag({w})] :
          w \in {v \in BagToSet(nodes) :
                    \A u \in BagToSet(nodes) : v.distance <= u.distance}}

\* BinaryHeap::pop, as the set of its possible outcomes.
heap_pop(nodes) ==
    IF nodes = EmptyBag THEN {[kind |-> "None"]}
    ELSE {[kind |-> "Some", current |-> w, rest |-> nodes (-) SetToBag({w})] :
          w \in {v \in BagToSet(nodes) :
                    \A u \in BagToSet(nodes) : v.distance <= u.distance}}

\* NearestNeighborIterator::extend_heap: every child is pushed.
RECURSIVE extend_heap(_, _, _)
extend_heap(nodes, children, query_point) ==
    IF children = <<>> THEN nodes
    ELSE extend_heap(nodes (+) SetToBag({wrapper(children[1], query_point)}),
                     Tail(children), query_point)

\* The bound lowered to the child's distance_2 in place of its MINMAXDIST.
push_within_mindist(acc, child, query_point) ==
    LET w == wrapper(child, query_point)
    IN  IF w.distance <= acc.min_max_distance
        THEN [nodes |-> acc.nodes (+) SetToBag({w}),
              min_max_distance |-> Min(acc.min_max_distance, w.distance),
              pruned |-> acc.pruned]
        ELSE [acc EXCEPT !.pruned = TRUE]

\* The child pushed when within the bound, and the bound never lowered.
push_keep_bound(acc, child, query_point) ==
    LET w == wrapper(child, query_point)
    IN  IF w.distance <= acc.min_max_distance
        THEN [acc EXCEPT !.nodes = acc.nodes (+) SetToBag({w})]
        ELSE [acc EXCEPT !.pruned = TRUE]

\* One child of nearest_neighbor's extend_heap: pushed, and the bound
\* lowered, when its distance is at most the bound.
push_within_bound(acc, child, query_point) ==
    LET w == wrapper(child, query_point)
    IN  IF w.distance <= acc.min_max_distance
        THEN [nodes |-> acc.nodes (+) SetToBag({w}),
              min_max_distance |->
                  Min(acc.min_max_distance,
                      min_max_dist_2(child.mbr, query_point)),
              pruned |-> acc.pruned]
        ELSE [acc EXCEPT !.pruned = TRUE]

\* nearest_neighbor's extend_heap: the heap, the bound and whether a child
\* was left out, after the children from the i-th on.
RECURSIVE bounded_extend_heap(_, _, _, _)
bounded_extend_heap(acc, children, i, query_point) ==
    IF i > Len(children) THEN acc
    ELSE bounded_extend_heap(push_within_bound(acc, children[i], query_point),
                             children, i + 1, query_point)

\* nearest_neighbor up to its loop (lines 164-168).
NearestNeighborBegin(q) ==
    /\ pc = "idle"
    /\ search.kind = "none" \/ search.done
    /\ LET e == bounded_extend_heap(
                    [nodes |-> EmptyBag, min_max_distance |-> ScalarMax,
                     pruned |-> FALSE], root.children, 1, q)
       IN  search' = [NoSearch EXCEPT !.kind = "nearest_neighbor",
                                      !.query = q,
                                      !.nodes = e.nodes,
                                      !.smallest_min_max = e.min_max_distance,
                                      !.pruned = e.pruned]
    /\ UNCHANGED <<params, root, height, size, pc, tree_height,
                   insertion_stack, reinsertions, inserted, reinsert_log,
                   origin, popped, late_insert, call>>

\* One turn of nearest_neighbor's loop (lines 169-185).
NearestNeighborStep ==
    /\ search.kind = "nearest_neighbor"
    /\ ~search.done
    /\ \E o \in heap_pop(search.nodes) :
          CASE o.kind = "None" ->
                  search' = [search EXCEPT !.done = TRUE, !.result = None]
            [] o.kind = "Some" /\ o.current.node.leaf ->
                  search' = [search EXCEPT
                                !.done = TRUE, !.nodes = EmptyBag,
                                !.result = Some(o.current.node.mbr.lower)]
            [] o.kind = "Some" /\ ~o.current.node.leaf ->
                  \E e \in {bounded_extend_heap(
                                [nodes |-> o.rest,
                                 min_max_distance |-> search.smallest_min_max,
                                 pruned |-> search.pruned],
                                o.current.node.children, 1, search.query)} :
                      search' = [search EXCEPT
                                    !.nodes = e.nodes,
                                    !.smallest_min_max = e.min_max_distance,
                                    !.pruned = e.pruned]
            [] OTHER ->
                  search' = [search EXCEPT !.done = TRUE, !.aborted = TRUE]
    /\ UNCHANGED <<params, root, height, size, pc, tree_height,
                   insertion_stack, reinsertions, inserted, reinsert_log,
                   origin, popped, late_insert, call>>

\* NearestNeighborIterator::new (lines 61-71).
IterNew(q) ==
    /\ pc = "idle"
    /\ search.kind = "none" \/ search.done
    /\ search' = [NoSearch EXCEPT
                     !.kind = "iter", !.query = q,
                     !.nodes = extend_heap(EmptyBag, root.children, q)]
    /\ UNCHANGED <<params, root, height, size, pc, tree_height,
                   insertion_stack, reinsertions, inserted, reinsert_log,
                   origin, popped, late_insert, call>>

\* One turn of the loop of NearestNeighborIterator::next (lines 99-117): a
\* Leaf popped is what next returns, and `emitted` keeps what the calls of
\* next have returned so far; with the heap empty next returns None.
IterNextStep ==
    /\ search.kind = "iter"
    /\ ~search.done
    /\ \E o \in heap_pop(search.nodes) :
          CASE o.kind = "None" ->
                  search' = [search EXCEPT !.done = TRUE, !.result = None]
            [] o.kind = "Some" /\ o.current.node.leaf ->
                  search' = [search EXCEPT
                                !.nodes = o.rest,
                                !.result = Some(o.current.node.mbr.lower),
                                !.emitted =
                                    Append(@, o.current.node.mbr.lower)]
            [] o.kind = "Some" /\ ~o.current.node.leaf ->
                  search' = [search EXCEPT
                                !.nodes = extend_heap(o.rest,
                                              o.current.node.children,
                                              search.query)]
            [] OTHER ->
                  search' = [search EXCEPT !.done = TRUE, !.aborted = TRUE]
    /\ UNCHANGED <<params, root, height, size, pc, tree_height,
                   insertion_stack, reinsertions, inserted, reinsert_log,
                   origin, popped, late_insert, call>>

\* Up to MaxQueryInserts inserts, and searches of the tree between them.
\* An insert borrows the tree exclusively: no search is under way then.
NextSearch ==
    \/ \E t \in Points :
          /\ size < MaxQueryInserts
          /\ search.kind = "none" \/ search.done
          /\ InsertBegin(t)
    \/ InsertStep
    \/ \E q \in QueryPoints : NearestNeighborBegin(q)
    \/ NearestNeighborStep
    \/ \E q \in QueryPoints : IterNew(q)
    \/ IterNextStep

SpecSearch == Init /\ [][NextSearch]_vars

\* ----------------------------------------------------------- direct calls

\* reinsert, split and choose_subtree applied, outside of an insert, to the
\* nodes recursive_insert hands them: a Parent whose mbr covers its children,
\* the children all Leaf or all Parent.  A behaviour makes one call.

\* The corners of the Parent children of a direct call.
BoxCorners == {<<0, 1>>, <<2, 1>>, <<1, 2>>, <<2, 0>>}

\* The Parent children of a direct call: one per pair of corners.
Boxes ==
    {new_parent(<<Leaf(cd[1]), Leaf(cd[2])>>) :
        cd \in {e \in BoxCorners \X BoxCorners : TupleLess(e[1], e[2])}}

LeafSeqs(n) == [1..n -> {Leaf(c) : c \in Points}]
BoxSeqs(n) == [1..n -> Boxes]

\* reinsert (lines 274-294) on a leaf container that overflows by one.
CallReinsert ==
    /\ pc = "idle"
    /\ call.op = "none"
    /\ params.ReinsertionCount > 0
    /\ \E children \in LeafSeqs(params.MaxSize + 1) :
          \E node \in {new_parent(children)} :
              \E r \in {reinsert(node)} :
                  call' = [op |-> "reinsert", node |-> node,
                           after |-> r.node, result |-> r.result]
    /\ UNCHANGED <<params, root, height, size, pc, tree_height,
                   insertion_stack, reinsertions, inserted, reinsert_log,
                   origin, popped, late_insert, search>>

\* split (lines 201-239) on a node that overflows by one.
CallSplit ==
    /\ pc = "idle"
    /\ call.op = "none"
    /\ \E children \in LeafSeqs(params.MaxSize + 1)
                        \cup BoxSeqs(params.MaxSize + 1) :
          \E node \in {new_parent(children)} :
              \E r \in {split(node)} :
                  call' = [op |-> "split", node |-> node,
                           after |-> r.node, result |-> r.result]
    /\ UNCHANGED <<params, root, height, size, pc, tree_height,
                   insertion_stack, reinsertions, inserted, reinsert_log,
                   origin, popped, late_insert, search>>

\* choose_subtree (lines 105-175) on a node of Parent children, for a Leaf
\* to insert.
CallChooseSubtree ==
    /\ pc = "idle"
    /\ call.op = "none"
    /\ \E n \in 1..MaxMaxSize, c \in Points, all_leaves \in BOOLEAN :
          \E children \in BoxSeqs(n) :
              \E node \in {new_parent(children)} :
                  call' = [op |-> "choose_subtree", node |-> node,
                           to_insert |-> Leaf(c), all_leaves |-> all_leaves,
                           min_index |-> choose_subtree(node, Leaf(c),
                                                        all_leaves)]
    /\ UNCHANGED <<params, root, height, size, pc, tree_height,
                   insertion_stack, reinsertions, inserted, reinsert_log,
                   origin, popped, late_insert, search>>

\* Direct calls on every node of the input sets, for every parameter set.
NextCalls ==
    \/ CallReinsert
    \/ CallSplit
    \/ CallChooseSubtree

SpecCalls == Init /\ [][NextCalls]_vars

\* ------------------------------------------------------- reading a tree

\* Every node below `node`, as a set.
RECURSIVE Descendants(_)
Descendants(node) ==
    UNION {{node.children[i]} \cup Descendants(node.children[i]) :
           i \in 1..Len(node.children)}

AllParents == {n \in {root} \cup Descendants(root) : ~n.leaf}
NonRootParents == {n \in Descendants(root) : ~n.leaf}

\* For each Leaf below `node`, the number of Parent nodes on the path from
\* `node` to it, `above` of them above `node`.
RECURSIVE LeafDepths(_, _)
LeafDepths(node, above) ==
    IF node.leaf THEN {above}
    ELSE UNION {LeafDepths(node.children[i], above + 1) :
                i \in 1..Len(node.children)}

\* How many Leaf nodes below `node` carry payload p.
RECURSIVE CountLeaf(_, _)
CountLeaf(node, p) ==
    IF node.leaf THEN (IF node.mbr.lower = p THEN 1 ELSE 0)
    ELSE IF node.children = <<>> THEN 0
    ELSE CountLeaf(node.children[1], p)
         + CountLeaf([node EXCEPT !.children = Tail(@)], p)

\* The smallest envelope around the envelopes of `children`, stated without
\* merge: on each axis the least lower and the greatest upper bound.
Tight(mbr, children) ==
    IF children = <<>> THEN mbr = new_empty
    ELSE \A k \in 1..2 :
           /\ \A i \in 1..Len(children) :
                 /\ mbr.lower[k] <= children[i].mbr.lower[k]
                 /\ mbr.upper[k] >= children[i].mbr.upper[k]
           /\ \E i \in 1..Len(children) : mbr.lower[k] = children[i].mbr.lower[k]
           /\ \E i \in 1..Len(children) : mbr.upper[k] = children[i].mbr.upper[k]

\* The last insert call split the root: `reinsertions` keeps the length the
\* tree's height had when the call began.
RootSplitInCall == height > Len(reinsertions)

\* -------------------------------------------------------------- claims

\* C1: when insert has returned, the mbr of every Parent node, the root
\* included, is exactly the merge of the envelopes of its children.
C1_MbrExact ==
    pc = "idle" => \A n \in AllParents : Tight(n.mbr, n.children)

\* C1's case: an insert that returned after a forced reinsertion, a node
\* split and a root split, leaving a tree of height two.
C1_Witness ==
    /\ pc = "idle"
    /\ reinsert_log # <<>>
    /\ RootSplitInCall
    /\ height >= 2
    /\ C1_MbrExact

\* C2 as claimed: when insert has returned, every non-root Parent has
\* between MIN_SIZE and MAX_SIZE children, for every allowed parameter set.
C2_NodeSizes ==
    pc = "idle" =>
        \A n \in NonRootParents :
            /\ params.MinSize <= Len(n.children)
            /\ Len(n.children) <= params.MaxSize

\* C3: when insert has returned, every Leaf has the same number of Parent
\* nodes above it, and that number is the tree's height.
C3_LeafDepth ==
    (pc = "idle" /\ size > 0) => LeafDepths(root, 0) = {height}

\* C3's case: an insert that returned after its root split and, later in
\* the same call, an entry of the work stack was placed in the taller tree.
C3_Witness ==
    /\ pc = "idle"
    /\ RootSplitInCall
    /\ late_insert
    /\ height >= 3
    /\ C3_LeafDepth

\* How many entries of the work stack carry payload p.
StackCount(p) ==
    Cardinality({i \in 1..Len(insertion_stack) :
                    insertion_stack[i].node = Leaf(p)})

\* C4: each payload is in the tree, or waiting on the work stack, as often
\* as it was passed to insert; and when insert has returned the stack is
\* empty, so it is in the tree that often.
C4_Payloads ==
    pc # "aborted" =>
        /\ \A p \in Points : CountLeaf(root, p) + StackCount(p) = inserted[p]
        /\ pc = "idle" => insertion_stack = <<>>

\* C4's case: a payload inserted twice and both copies kept, by an insert
\* that reinserted and split.
C4_Witness ==
    /\ pc = "idle"
    /\ reinsert_log # <<>>
    /\ RootSplitInCall
    /\ \E p \in Points : inserted[p] >= 2 /\ CountLeaf(root, p) = inserted[p]

\* The squared distance of payload t from the query point.
PayloadDistance(t, query_point) ==
    Sq(t[1] - query_point[1]) + Sq(t[2] - query_point[2])

\* The payloads of the tree, as a set.
Payloads == {p \in Points : CountLeaf(root, p) > 0}

\* How often p occurs in the sequence seq.
Occurrences(seq, p) == Cardinality({i \in 1..Len(seq) : seq[i] = p})

\* C5: on a tree that is not empty nearest_neighbor returns Some(t), and no
\* payload of the tree is closer to the query point than t.
C5_Nearest ==
    (search.kind = "nearest_neighbor" /\ search.done /\ size > 0) =>
        /\ ~search.aborted
        /\ search.result # None
        /\ search.result[1] \in Payloads
        /\ \A p \in Payloads :
              PayloadDistance(search.result[1], search.query)
                  <= PayloadDistance(p, search.query)

\* C5's case: a search that left a child out because of the MINMAXDIST
\* bound, in a tree of two levels or more, and returned.
C5_Witness ==
    /\ search.kind = "nearest_neighbor"
    /\ search.done
    /\ search.pruned
    /\ height >= 2
    /\ Cardinality(Payloads) >= 3
    /\ C5_Nearest

\* C6: what the calls of next have returned so far is in non-decreasing
\* order of distance from the query point, and once next has returned None
\* it holds every payload of the tree exactly as often as the tree does.
C6_IterOrder ==
    search.kind = "iter" =>
        /\ ~search.aborted
        /\ \A i \in 1..(Len(search.emitted) - 1) :
              PayloadDistance(search.emitted[i], search.query)
                  <= PayloadDistance(search.emitted[i + 1], search.query)
        /\ search.done =>
              \A p \in Points :
                  Occurrences(search.emitted, p) = CountLeaf(root, p)

\* C6's case: an iteration run to its end over a tree of two levels or more
\* that holds a payload twice and payloads at three distances.
C6_Witness ==
    /\ search.kind = "iter"
    /\ search.done
    /\ height >= 2
    /\ \E p \in Points : CountLeaf(root, p) >= 2
    /\ Cardinality({PayloadDistance(p, search.query) : p \in Payloads}) >= 3
    /\ C6_IterOrder

\* C9: on the empty tree nearest_neighbor returns None and the iterator's
\* first next returns None, neither aborting.
C9_EmptyTree ==
    (search.kind # "none" /\ search.done /\ root.children = <<>>) =>
        /\ ~search.aborted
        /\ search.result = None
        /\ search.emitted = <<>>

\* C9's case: a search of the empty tree that has returned.
C9_Witness ==
    /\ search.kind = "nearest_neighbor"
    /\ search.done
    /\ root.children = <<>>
    /\ size = 0
    /\ C9_EmptyTree

\* C7 as claimed: within one insert call no level sees a second forced
\* reinsertion.
C7_OncePerLevel ==
    \A i, j \in 1..Len(reinsert_log) :
        i # j => reinsert_log[i] # reinsert_log[j]

\* C8: an insert call that has entered its loop returns, its work stack
\* empty.
C8_Terminates ==
    (pc = "loop") ~> (pc = "idle" /\ insertion_stack = <<>>)

\* C8's case: an insert call that returned after two forced reinsertions.
C8_Witness ==
    /\ pc = "idle"
    /\ insertion_stack = <<>>
    /\ Len(reinsert_log) >= 2
    /\ size >= 1

\* The ranks, within the returned sequence of Reinsert number `batch`, of the
\* entries that stayed on the stack at the last pop.
RemainingRanks(batch) ==
    {popped.remaining[i].rank :
        i \in {j \in 1..Len(popped.remaining) :
                  popped.remaining[j].batch = batch}}

\* C10 as claimed: the entries a Reinsert returned are popped in the
\* returned order, the first of them first.
C10_ReturnedOrder ==
    popped.origin.batch >= 1 =>
        \A r \in RemainingRanks(popped.origin.batch) : r > popped.origin.rank

\* C10 as amended: the entries a Reinsert returned are popped in the reverse
\* of the returned order (when the entry of rank r is popped, exactly those
\* of ranks 1 to r - 1 are still waiting), and every entry waiting is a
\* Leaf scheduled for the level of the leaves.
C10_ReverseOrder ==
    /\ popped.origin.batch >= 1 =>
          RemainingRanks(popped.origin.batch) = 1..(popped.origin.rank - 1)
    /\ \A i \in 1..Len(insertion_stack) :
          /\ insertion_stack[i].node.leaf
          /\ insertion_stack[i].node_height = 0

\* C10's case: the first pop after a Reinsert that returned two entries.
C10_Witness ==
    /\ popped.origin.batch >= 1
    /\ popped.origin.rank = 2
    /\ RemainingRanks(popped.origin.batch) = {1}
    /\ pc # "aborted"

\* The bound lowered for every child from the i-th on, pushed or not.
RECURSIVE regardless_bound(_, _, _, _)
regardless_bound(bound, children, i, query_point) ==
    IF i > Len(children) THEN bound
    ELSE regardless_bound(
             Min(bound, min_max_dist_2(children[i].mbr, query_point)),
             children, i + 1, query_point)

\* The bound nearest_neighbor holds after the expansion of `children` is
\* the bound lowered for every child, and so at most the min_max_dist_2 of
\* each of them.
BoundCovers(before, children, after, query_point) ==
    /\ after = regardless_bound(before, children, 1, query_point)
    /\ \A i \in 1..Len(children) :
          after <= min_max_dist_2(children[i].mbr, query_point)

\* A step of nearest_neighbor that expands the root (the call's first
\* extend_heap).
ExpandsRoot ==
    /\ search.kind = "none" \/ search.done
    /\ search'.kind = "nearest_neighbor"
    /\ ~search'.done

\* A step of nearest_neighbor's loop that goes on: it expanded a Parent.
ExpandsParent ==
    /\ search.kind = "nearest_neighbor"
    /\ ~search.done
    /\ search'.kind = "nearest_neighbor"
    /\ ~search'.done

\* C11: after every expansion of the single-result search the pruning bound
\* equals the bound updated for every child of the expanded node, pushed or
\* pruned, and is at most the min_max_dist_2 of each of these children.
C11_BoundRegardless ==
    [][/\ ExpandsRoot =>
             BoundCovers(ScalarMax, root.children,
                         search'.smallest_min_max, search'.query)
       /\ ExpandsParent =>
             \E o \in heap_pop(search.nodes) :
                 /\ o.kind = "Some"
                 /\ ~o.current.node.leaf
                 /\ search'.nodes =
                        bounded_extend_heap(
                            [nodes |-> o.rest,
                             min_max_distance |-> search.smallest_min_max,
                             pruned |-> search.pruned],
                            o.current.node.children, 1, search.query).nodes
                 /\ BoundCovers(search.smallest_min_max,
                                o.current.node.children,
                                search'.smallest_min_max, search.query)]_vars

\* C11's case: an expansion of the single-result search has left a child
\* out of the queue, and the search goes on.
C11_Witness ==
    /\ search.kind = "nearest_neighbor"
    /\ search.pruned
    /\ ~search.done
    /\ search.smallest_min_max < ScalarMax

\* C12: no insert reaches a fatal abort: choose_subtree finds a child and
\* the child it picks is a Parent, the index into reinsertions is in bounds,
\* and neither subtraction from tree_height goes below zero.
C12_NoAbort == pc # "aborted"

\* C12's case: the root has split during this call, and a later turn of the
\* loop descended through choose_subtree and scheduled a Reinsert, whose
\* entries have just been pushed.
C12_Witness ==
    /\ pc = "loop"
    /\ tree_height > Len(reinsertions)
    /\ tree_height >= 2
    /\ origin # <<>>
    /\ origin[Len(origin)].batch = Len(reinsert_log)
    /\ origin[Len(origin)].rank = params.ReinsertionCount

\* The nodes of a sequence, as a bag.
NodeBag(nodes) ==
    [n \in {nodes[i] : i \in 1..Len(nodes)} |->
        Cardinality({i \in 1..Len(nodes) : nodes[i] = n})]

\* Four times the squared distance from the centre of a child's envelope to
\* the centre of the mbr the node of the direct call had on entry.
CenterDistance(child) ==
    Sq(child.mbr.lower[1] + child.mbr.upper[1]
       - call.node.mbr.lower[1] - call.node.mbr.upper[1])
    + Sq(child.mbr.lower[2] + child.mbr.upper[2]
         - call.node.mbr.lower[2] - call.node.mbr.upper[2])

\* C13: reinsert on a node of MAX_SIZE + 1 children detaches exactly
\* REINSERTION_COUNT of them, none of them strictly closer to the centre of
\* the mbr on entry than a retained child, keeps the others, and leaves the
\* node's mbr the merge of the retained children only.
C13_ReinsertFarthest ==
    call.op = "reinsert" =>
        /\ Len(call.node.children) = params.MaxSize + 1
        /\ Len(call.result) = params.ReinsertionCount
        /\ Len(call.after.children)
              = params.MaxSize + 1 - params.ReinsertionCount
        /\ NodeBag(call.after.children \o call.result)
              = NodeBag(call.node.children)
        /\ \A i \in 1..Len(call.result) :
              \A j \in 1..Len(call.after.children) :
                  CenterDistance(call.result[i])
                      >= CenterDistance(call.after.children[j])
        /\ Tight(call.after.mbr, call.after.children)

\* C13's case: a reinsert that detached two children, one of them strictly
\* farther from the centre than a retained child, and shrank the mbr.
C13_Witness ==
    /\ call.op = "reinsert"
    /\ Len(call.result) = 2
    /\ \E i \in 1..Len(call.result) :
          \E j \in 1..Len(call.after.children) :
              CenterDistance(call.result[i])
                  > CenterDistance(call.after.children[j])
    /\ call.after.mbr # call.node.mbr

\* The reference policy of choose_subtree, on the direct call's node.

\* The children whose mbr contains the incoming envelope.
RefContaining ==
    {i \in 1..Len(call.node.children) :
        contains_envelope(call.node.children[i].mbr, call.to_insert.mbr)}

\* The change, summed over the children from the j-th on other than the
\* i-th, of the intersection area with the i-th once it holds the incoming
\* envelope.
RECURSIVE RefOverlapIncrease(_, _)
RefOverlapIncrease(i, j) ==
    IF j > Len(call.node.children) THEN 0
    ELSE (IF j = i THEN 0
          ELSE intersection_area(merge(call.node.children[i].mbr,
                                       call.to_insert.mbr),
                                 call.node.children[j].mbr)
               - intersection_area(call.node.children[i].mbr,
                                   call.node.children[j].mbr))
         + RefOverlapIncrease(i, j + 1)

\* (overlap_increase, area_increase, area of the merged mbr) of a child.
RefTriple(i) ==
    <<IF call.all_leaves THEN RefOverlapIncrease(i, 1) ELSE 0,
      area(merge(call.node.children[i].mbr, call.to_insert.mbr))
          - area(call.node.children[i].mbr),
      area(merge(call.node.children[i].mbr, call.to_insert.mbr))>>

\* The first of the containing children of smallest area.
RefSmallestArea ==
    CHOOSE i \in RefContaining :
        \A j \in RefContaining :
            /\ area(call.node.children[j].mbr)
                  >= area(call.node.children[i].mbr)
            /\ j < i => area(call.node.children[j].mbr)
                           > area(call.node.children[i].mbr)

\* The first of the children of least triple.
RefLeastTriple ==
    CHOOSE i \in 1..Len(call.node.children) :
        \A j \in 1..Len(call.node.children) :
            /\ ~TupleLess(RefTriple(j), RefTriple(i))
            /\ j < i => TupleLess(RefTriple(i), RefTriple(j))

RefChoice ==
    IF RefContaining # {} THEN RefSmallestArea ELSE RefLeastTriple

\* C14: choose_subtree returns the child of the reference policy: the first
\* child of smallest area among those containing the incoming envelope, or
\* with no such child the first that minimises (overlap_increase,
\* area_increase, area).
C14_ReferencePolicy ==
    call.op = "choose_subtree" => call.min_index = RefChoice

\* C14's case: no child contains the incoming envelope, the children are
\* leaf containers, the overlap decides (a child of smaller area_increase
\* and area has the greater overlap_increase), and a later child ties with
\* the chosen one on the triple.
C14_Witness ==
    /\ call.op = "choose_subtree"
    /\ RefContaining = {}
    /\ call.all_leaves
    /\ call.min_index > 1
    /\ \E j \in 1..Len(call.node.children) :
          /\ j > call.min_index
          /\ RefTriple(j) = RefTriple(call.min_index)
    /\ \E j \in 1..Len(call.node.children) :
          /\ RefTriple(j)[1] > RefTriple(call.min_index)[1]
          /\ TupleLess(<<RefTriple(j)[2], RefTriple(j)[3]>>,
                       <<RefTriple(call.min_index)[2],
                         RefTriple(call.min_index)[3]>>)

\* The children of the direct call's node as split left them: the prefix
\* kept, then the suffix detached.
SplitOrder == call.after.children \o call.result.children

\* The smallest envelope around the children i..j of SplitOrder, stated
\* without merge.
Around(i, j) ==
    [lower |-> <<CHOOSE v \in {SplitOrder[n].mbr.lower[1] : n \in i..j} :
                    \A n \in i..j : v <= SplitOrder[n].mbr.lower[1],
                 CHOOSE v \in {SplitOrder[n].mbr.lower[2] : n \in i..j} :
                    \A n \in i..j : v <= SplitOrder[n].mbr.lower[2]>>,
     upper |-> <<CHOOSE v \in {SplitOrder[n].mbr.upper[1] : n \in i..j} :
                    \A n \in i..j : v >= SplitOrder[n].mbr.upper[1],
                 CHOOSE v \in {SplitOrder[n].mbr.upper[2] : n \in i..j} :
                    \A n \in i..j : v >= SplitOrder[n].mbr.upper[2]>>]

\* (overlap, area) of the cut of SplitOrder after its k-th child.
SplitPair(k) ==
    <<intersection_area(Around(1, k), Around(k + 1, Len(SplitOrder))),
      area(Around(1, k)) + area(Around(k + 1, Len(SplitOrder)))>>

\* The indices split may cut at.
SplitRange == params.MinSize..(Len(SplitOrder) - params.MinSize)

\* SplitOrder ascends on `axis`: by lower bound, then by upper bound.
SortedOn(axis) ==
    \A n \in 1..(Len(SplitOrder) - 1) :
        ~TupleLess(<<SplitOrder[n + 1].mbr.lower[axis],
                     SplitOrder[n + 1].mbr.upper[axis]>>,
                   <<SplitOrder[n].mbr.lower[axis],
                     SplitOrder[n].mbr.upper[axis]>>)

\* C15: split of a node of MAX_SIZE + 1 children sorts them on the axis
\* get_split_axis chose and detaches the suffix after the first index of
\* [MIN_SIZE, len - MIN_SIZE] that minimises (overlap, area); the range is
\* not empty, the sibling returned is a Parent whose mbr is the merge of
\* the detached children, and the node's mbr is the merge of the prefix.
C15_SplitIndex ==
    call.op = "split" =>
        /\ Len(call.node.children) = params.MaxSize + 1
        /\ SplitRange # {}
        /\ NodeBag(SplitOrder) = NodeBag(call.node.children)
        /\ SortedOn(get_split_axis(call.node).axis)
        /\ Len(call.after.children) \in SplitRange
        /\ \A k \in SplitRange :
              /\ ~TupleLess(SplitPair(k), SplitPair(Len(call.after.children)))
              /\ k < Len(call.after.children) =>
                    TupleLess(SplitPair(Len(call.after.children)),
                              SplitPair(k))
        /\ ~call.result.leaf
        /\ Tight(call.result.mbr, call.result.children)
        /\ Tight(call.after.mbr, call.after.children)

\* C15's case: a split with three indices to cut at, where a later index
\* ties with the chosen one, an earlier index is worse, and the order of
\* the children changed.
C15_Witness ==
    /\ call.op = "split"
    /\ Cardinality(SplitRange) >= 3
    /\ \E k \in SplitRange :
          /\ k > Len(call.after.children)
          /\ SplitPair(k) = SplitPair(Len(call.after.children))
    /\ \E k \in SplitRange : k < Len(call.after.children)
    /\ SplitOrder # call.node.children

\* C16: with REINSERTION_COUNT > 0 every forced reinsertion is at the level
\* of the leaf containers: every entry on the work stack is a Leaf of level
\* 0, and every Reinsert of the call read and cleared reinsertions[0].
C16_LeafLevelOnly ==
    params.ReinsertionCount > 0 =>
        /\ \A i \in 1..Len(insertion_stack) :
              /\ insertion_stack[i].node.leaf
              /\ insertion_stack[i].node.children = <<>>
              /\ insertion_stack[i].node_height = 0
        /\ \A i \in 1..Len(reinsert_log) : reinsert_log[i] = 0
        /\ \A i \in 2..Len(reinsertions) : reinsertions[i]

\* C16's case: a call that reinserted, then split a leaf container, the
\* node above it and the root of a tree of height two, entries still
\* waiting on the work stack.
C16_Witness ==
    /\ params.ReinsertionCount > 0
    /\ pc = "loop"
    /\ reinsert_log # <<>>
    /\ tree_height > Len(reinsertions)
    /\ tree_height >= 3
    /\ insertion_stack # <<>>

\* This turn of insert's loop scheduled a Reinsert.
ReinsertScheduled ==
    /\ pc = "loop"
    /\ Len(reinsert_log') > Len(reinsert_log)

\* C17: one insert call performs at most 1 + REINSERTION_COUNT forced
\* reinsertions: a reinsertion is triggered only by an entry that carries
\* allow_reinsert = true, the entries the first reinsertion detaches are
\* pushed with allow_reinsert = true (the flag as read before it is
\* cleared), and those of every later one with allow_reinsert = false.
C17_ReinsertBudget ==
    [][/\ Len(reinsert_log') <= 1 + params.ReinsertionCount
       /\ ReinsertScheduled =>
             /\ insertion_stack[Len(insertion_stack)].can_reinsert
             /\ Len(insertion_stack')
                   = Len(insertion_stack) - 1 + params.ReinsertionCount
             /\ \A i \in Len(insertion_stack)..Len(insertion_stack') :
                   insertion_stack'[i].can_reinsert = (reinsert_log = <<>>)
             /\ reinsertions'[1] = FALSE]_vars

\* C17's case: a call that returned after 1 + REINSERTION_COUNT forced
\* reinsertions, with REINSERTION_COUNT = 2.
C17_Witness ==
    /\ pc = "idle"
    /\ params.ReinsertionCount = 2
    /\ Len(reinsert_log) = 3

====
